---- MODULE Spec2Model ----
(***************************************************************************)
(* Model of the AI tech-support chat: the two request adapters of          *)
(* services/aiService.js (getAIResponse for Gemini, getOpenAIResponse for  *)
(* OpenAI) and the React component App of src/App.js that calls them.      *)
(*                                                                         *)
(* Two specifications share the module:                                    *)
(*   AdapterSpec  one adapter call on arguments drawn from bounded sets:   *)
(*                the request it builds and the result it settles with;    *)
(*   Spec         the App component: typing, sending, provider switch,     *)
(*                reset and the arrival of fetch responses.                *)
(***************************************************************************)
EXTENDS Integers, Sequences, FiniteSets, TLC

VARIABLES
    chatHistory,     \* App state: the conversation, a sequence of turns
    userInput,       \* App state: content of the text box
    isLoading,       \* App state: loading flag
    aiModel,         \* App state: selected provider, "gemini" or "openai"
    geminiKey,       \* process.env.REACT_APP_GEMINI_API_KEY
    openaiKey,       \* process.env.REACT_APP_OPENAI_API_KEY
    mounted,         \* whether the mount effect has run
    requests,        \* every adapter invocation made by sendMessage, in order
    pending,         \* indices of requests whose fetch has not settled yet
    lastSpeak,       \* argument of the last speakText call
    session,         \* history variable: number of resets so far
    turnSession,     \* history variable: session each turn of chatHistory stems from
    sends,           \* history variable: number of sendMessage runs so far
    lastOutcome,     \* history variable: how the latest try block of sendMessage ended
    call             \* AdapterSpec: the adapter call under examination

vars == << chatHistory, userInput, isLoading, aiModel,
           geminiKey, openaiKey, mounted, requests, pending, lastSpeak,
           session, sends, lastOutcome, turnSession, call >>

appVars == << chatHistory, userInput, isLoading, aiModel,
              geminiKey, openaiKey, mounted, requests, pending, lastSpeak,
              session, sends, lastOutcome, turnSession >>

----------------------------------------------------------------------------
(* Bounds of the model *)

MaxHistory == 2   \* longest history handed to an adapter in AdapterSpec
MaxSends == 2     \* adapter-reaching or failing sends per behaviour of Spec
MaxResets == 1    \* clicks on Reset Chat per behaviour of Spec

----------------------------------------------------------------------------
(* JavaScript values *)

\* the value of an absent property or environment variable
Undefined == "<undefined>"

\* texts a user types; the first two are blank under String.prototype.trim
BlankInputs == {"", "  "}
Inputs == BlankInputs \cup {"my wifi is down"}

\* userInput.trim() === ''
IsBlank(s) == s \in BlankInputs

----------------------------------------------------------------------------
(* services/aiService.js: request construction *)

GeminiPersona == "You are a helpful and patient tech support agent. Your goal is to assist the user in troubleshooting common technical issues. Provide clear, step-by-step instructions and ask clarifying questions when needed. Keep your responses professional and focused on problem-solving. This is for training purposes, so be thorough in your explanations. Start by asking the user what problem they are experiencing."

OpenAIPersona == "You are a helpful and patient tech support agent. Your goal is to assist the user in troubleshooting common technical issues. Provide clear, step-by-step instructions and ask clarifying questions when needed. Keep your responses professional and focused on problem-solving."

initialPrompt == [role |-> "user", parts |-> << [text |-> GeminiPersona] >>]

systemMessage == [role |-> "system", content |-> OpenAIPersona]

\* the mutation of GeminiRole that maps every turn to "user"
GeminiRoleAllUser(msg) == "user"

\* msg.role === 'user' ? 'user' : 'model'
GeminiRole(msg) == IF msg.role = "user" THEN "user" ELSE "model"

\* chatHistory.map(...) followed by push of the current user message
apiChatHistory(history, input) ==
    Append([i \in 1..Len(history) |->
               [role |-> GeminiRole(history[i]),
                parts |-> << [text |-> history[i].text] >>]],
           [role |-> "user", parts |-> << [text |-> input] >>])

\* the mutation of payloadContents that merges the persona into the history
payloadContentsMerged(history, input, isFirstMessage) ==
    IF isFirstMessage
    THEN << initialPrompt >> \o apiChatHistory(history, input)
    ELSE apiChatHistory(history, input)

\* contents of the payload getAIResponse posts
payloadContents(history, input, isFirstMessage) ==
    IF isFirstMessage
    THEN << initialPrompt, [role |-> "user", parts |-> << [text |-> input] >>] >>
    ELSE apiChatHistory(history, input)

\* the mutation of OpenAIRole that tests for the agent role under a wrong name
OpenAIRoleWrongName(msg) == IF msg.role = "assistant" THEN "assistant" ELSE "user"

\* msg.role === 'model' ? 'assistant' : 'user'
OpenAIRole(msg) == IF msg.role = "model" THEN "assistant" ELSE "user"

\* messages of the body getOpenAIResponse posts
messages(history, input) ==
    << systemMessage >>
    \o [i \in 1..Len(history) |->
           [role |-> OpenAIRole(history[i]), content |-> history[i].text]]
    \o << [role |-> "user", content |-> input] >>

----------------------------------------------------------------------------
(* The HTTP exchange: what fetch and response.json() can deliver *)

Statuses == {200, 299, 300, 404, 500}

\* response.ok
Ok(response) == response.status >= 200 /\ response.status <= 299

\* a reply with leading and trailing blanks, a line break and quotes
PaddedText == "  Unplug it.\nWait \"10\" seconds.  "

\* PaddedText as String.prototype.trim would leave it
TrimmedText == "Unplug it.\nWait \"10\" seconds."

\* JSON bodies of the generateContent endpoint, from the success shape down to
\* an object without candidates
GeminiBodies ==
    { [candidates |-> << [content |-> [parts |-> << [text |-> "Try restarting the router."] >>]] >>],
      [candidates |-> << [content |-> [parts |-> << [text |-> PaddedText] >>]] >>],
      [candidates |-> << [content |-> [parts |-> << [text |-> ""] >>]] >>],
      [candidates |-> << [content |-> [parts |-> << [inlineData |-> "image/png"] >>]] >>],
      [candidates |-> << [content |-> [parts |-> << >>]] >>],
      [candidates |-> << [content |-> [role |-> "model"]] >>],
      [candidates |-> << [finishReason |-> "SAFETY"] >>],
      [candidates |-> << >>],
      [promptFeedback |-> "BLOCKED"] }

\* JSON bodies of the chat-completions endpoint
OpenAIBodies ==
    { [choices |-> << [message |-> [role |-> "assistant", content |-> "Try restarting the router."]] >>],
      [choices |-> << [message |-> [role |-> "assistant", content |-> PaddedText]] >>],
      [choices |-> << [message |-> [role |-> "assistant", content |-> ""]] >>],
      [choices |-> << [message |-> [role |-> "assistant"]] >>],
      [choices |-> << [finish_reason |-> "length"] >>],
      [choices |-> << >>],
      [error |-> "invalid_request_error"] }

Bodies(provider) == IF provider = "openai" THEN OpenAIBodies ELSE GeminiBodies

\* fetch rejects: no response at all
Rejected == [settled |-> "rejected", status |-> 0, jsonOk |-> FALSE,
             json |-> [none |-> TRUE]]

\* fetch resolves with a status and a body that is JSON (jsonOk) or not
Responses(provider) ==
    {Rejected} \cup
    { [settled |-> "fulfilled", status |-> s, jsonOk |-> TRUE, json |-> b] :
        s \in Statuses, b \in Bodies(provider) } \cup
    { [settled |-> "fulfilled", status |-> s, jsonOk |-> FALSE,
       json |-> [none |-> TRUE]] : s \in Statuses }

----------------------------------------------------------------------------
(* services/aiService.js: settling the call *)

\* a returned value; jsonCalled records whether response.json() was invoked
Return(v, jsonCalled) == [kind |-> "return", value |-> v, jsonCalled |-> jsonCalled]

\* a thrown error (the catch block rethrows it unchanged)
Throw(name, message, jsonCalled) ==
    [kind |-> "throw", name |-> name, message |-> message, jsonCalled |-> jsonCalled]

\* messages of errors the runtime raises
FetchFailedMessage == "Failed to fetch"
JsonSyntaxMessage == "Unexpected token < in JSON at position 0"

GeminiHttpMessage(status) == "API request failed with status: " \o ToString(status)
GeminiFormatMessage == "Invalid response format from AI service"
OpenAIHttpMessage(status) == "OpenAI API request failed with status: " \o ToString(status)
OpenAIFormatMessage == "Invalid response format from OpenAI service"

\* the structure test of getAIResponse
GeminiWellFormed(result) ==
    /\ "candidates" \in DOMAIN result
    /\ Len(result.candidates) > 0
    /\ "content" \in DOMAIN result.candidates[1]
    /\ "parts" \in DOMAIN result.candidates[1].content
    /\ Len(result.candidates[1].content.parts) > 0

\* the mutation of GeminiText that trims the text it returns
GeminiTextTrimmed(result) ==
    LET part == result.candidates[1].content.parts[1]
    IN  IF "text" \in DOMAIN part
        THEN (IF part.text = PaddedText THEN TrimmedText ELSE part.text)
        ELSE Undefined

\* result.candidates[0].content.parts[0].text
GeminiText(result) ==
    LET part == result.candidates[1].content.parts[1]
    IN  IF "text" \in DOMAIN part THEN part.text ELSE Undefined

\* the mutation of getAIResponseResult that omits the response.ok test
getAIResponseResultNoOkTest(response) ==
    IF response.settled = "rejected"
    THEN Throw("TypeError", FetchFailedMessage, FALSE)
    ELSE IF ~response.jsonOk
    THEN Throw("SyntaxError", JsonSyntaxMessage, TRUE)
    ELSE IF GeminiWellFormed(response.json)
    THEN Return(GeminiText(response.json), TRUE)
    ELSE Throw("Error", GeminiFormatMessage, TRUE)

\* getAIResponse from the settling of fetch to its return or throw
getAIResponseResult(response) ==
    IF response.settled = "rejected"
    THEN Throw("TypeError", FetchFailedMessage, FALSE)
    ELSE IF ~Ok(response)
    THEN Throw("Error", GeminiHttpMessage(response.status), FALSE)
    ELSE IF ~response.jsonOk
    THEN Throw("SyntaxError", JsonSyntaxMessage, TRUE)
    ELSE IF GeminiWellFormed(response.json)
    THEN Return(GeminiText(response.json), TRUE)
    ELSE Throw("Error", GeminiFormatMessage, TRUE)

\* the structure test of getOpenAIResponse
OpenAIWellFormed(data) ==
    /\ "choices" \in DOMAIN data
    /\ Len(data.choices) > 0
    /\ "message" \in DOMAIN data.choices[1]

\* data.choices[0].message.content
OpenAIText(data) ==
    LET message == data.choices[1].message
    IN  IF "content" \in DOMAIN message THEN message.content ELSE Undefined

\* the mutation of getOpenAIResponseResult that reads the text through
\* optional chaining and returns whatever it finds
getOpenAIResponseResultChained(response) ==
    IF response.settled = "rejected"
    THEN Throw("TypeError", FetchFailedMessage, FALSE)
    ELSE IF ~Ok(response)
    THEN Throw("Error", OpenAIHttpMessage(response.status), FALSE)
    ELSE IF ~response.jsonOk
    THEN Throw("SyntaxError", JsonSyntaxMessage, TRUE)
    ELSE IF OpenAIWellFormed(response.json)
    THEN Return(OpenAIText(response.json), TRUE)
    ELSE Return(Undefined, TRUE)

\* getOpenAIResponse from the settling of fetch to its return or throw
getOpenAIResponseResult(response) ==
    IF response.settled = "rejected"
    THEN Throw("TypeError", FetchFailedMessage, FALSE)
    ELSE IF ~Ok(response)
    THEN Throw("Error", OpenAIHttpMessage(response.status), FALSE)
    ELSE IF ~response.jsonOk
    THEN Throw("SyntaxError", JsonSyntaxMessage, TRUE)
    ELSE IF OpenAIWellFormed(response.json)
    THEN Return(OpenAIText(response.json), TRUE)
    ELSE Throw("Error", OpenAIFormatMessage, TRUE)

\* the request body's turn list, per provider
RequestTurns(provider, history, input, isFirstMessage) ==
    IF provider = "openai"
    THEN messages(history, input)
    ELSE payloadContents(history, input, isFirstMessage)

\* the adapter's result, per provider
AdapterResult(provider, response) ==
    IF provider = "openai"
    THEN getOpenAIResponseResult(response)
    ELSE getAIResponseResult(response)

----------------------------------------------------------------------------
(* src/App.js: the App component *)

GeminiPlaceholder == "your_gemini_api_key_here"
OpenAIPlaceholder == "your_openai_api_key_here"

\* values the build can give an environment variable
KeyValues(placeholder) == {Undefined, "", placeholder, "live-key"}

\* the mutation of KeyMissing that forgets the placeholder
KeyMissingNoPlaceholder(key, placeholder) == key = Undefined \/ key = ""

\* !process.env.KEY || process.env.KEY === placeholder
KeyMissing(key, placeholder) ==
    key = Undefined \/ key = "" \/ key = placeholder

GeminiKeyMessage == "Gemini API key is not set. Please add your API key to the .env file."
OpenAIKeyMessage == "OpenAI API key is not set. Please add your API key to the .env file."
DefaultErrorMessage == "There was an error connecting to the AI. Please check your network or try again later."
welcomeMessage == "Hello! I am your Optimum Agent. How can I assist you with your technical issue today?"

\* the mutation of errorMessage that reports every error by the generic text
errorMessageGeneric(message) == "Error: " \o DefaultErrorMessage

\* `Error: ${error.message || default}`
errorMessage(message) ==
    "Error: " \o (IF message = "" \/ message = Undefined
                  THEN DefaultErrorMessage ELSE message)

\* { role: 'user', text: userInput }
userMessage(text) == [role |-> "user", text |-> text]

\* the mutation of agentMessage that files the turn under the user's role
agentMessageAsUser(text, model) == [role |-> "user", text |-> text, model |-> model]

\* { role: 'model', text, model }
agentMessage(text, model) == [role |-> "model", text |-> text, model |-> model]

\* speakText(text): the text it is invoked with (whether an utterance follows
\* depends on the voice toggle, which no property here reads)
speakText(text) == text

\* state of the component when it is constructed (the useState initial values)
Init ==
    /\ chatHistory = << >>
    /\ userInput = ""
    /\ isLoading = FALSE
    /\ aiModel = "gemini"
    /\ geminiKey \in KeyValues(GeminiPlaceholder)
    /\ openaiKey \in KeyValues(OpenAIPlaceholder)
    /\ mounted = FALSE
    /\ requests = << >>
    /\ pending = {}
    /\ lastSpeak = Undefined
    /\ session = 0
    /\ sends = 0
    /\ lastOutcome = [kind |-> "none"]
    /\ turnSession = << >>
    /\ call = [pc |-> "idle"]

\* the state updates of resetChat; s is the session the reset opens
resetChat(s) ==
    /\ chatHistory' = << agentMessage(welcomeMessage, aiModel) >>
    /\ userInput' = ""
    /\ isLoading' = FALSE
    /\ lastSpeak' = speakText(welcomeMessage)
    /\ session' = s
    /\ turnSession' = << s >>

\* the mount effect: chatHistory.length === 0, so resetChat runs.  React
\* runs it before any event handler of the rendered tree, hence the guard
\* `mounted` of the handlers below.  After it the effect never acts again:
\* no committed chatHistory is empty, resetChat's two updates being batched.
Mount ==
    /\ ~mounted
    /\ Len(chatHistory) = 0
    /\ mounted' = TRUE
    /\ resetChat(session)
    /\ UNCHANGED << aiModel, geminiKey, openaiKey, requests,
                    pending, sends, lastOutcome, call >>

\* click on Reset Chat (the button is never disabled)
ResetClick ==
    /\ mounted
    /\ session < MaxResets
    /\ resetChat(session + 1)
    /\ UNCHANGED << aiModel, geminiKey, openaiKey, mounted,
                    requests, pending, sends, lastOutcome, call >>

\* typing into the text box, which is disabled while isLoading
SetUserInput ==
    /\ mounted
    /\ ~isLoading
    /\ \E text \in Inputs : text # userInput /\ userInput' = text
    /\ UNCHANGED << chatHistory, isLoading, aiModel, geminiKey,
                    openaiKey, mounted, requests, pending, lastSpeak, session,
                    sends, lastOutcome, turnSession, call >>

\* the provider select
SetAiModel ==
    /\ mounted
    /\ \E m \in {"gemini", "openai"} : m # aiModel /\ aiModel' = m
    /\ UNCHANGED << chatHistory, userInput, isLoading, geminiKey,
                    openaiKey, mounted, requests, pending, lastSpeak, session,
                    sends, lastOutcome, turnSession, call >>

\* the configuration test at the head of sendMessage's try block: the message
\* of the error it throws, or Undefined when it throws none
ConfigError(model, gKey, oKey) ==
    IF model = "gemini" /\ KeyMissing(gKey, GeminiPlaceholder)
    THEN GeminiKeyMessage
    ELSE IF model = "openai" /\ KeyMissing(oKey, OpenAIPlaceholder)
    THEN OpenAIKeyMessage
    ELSE Undefined

\* the adapter sendMessage dispatches to
SelectedAdapter(model) == IF model = "openai" THEN "openai" ELSE "gemini"

\* sendMessage up to its await (Send button or Enter, both off while
\* isLoading): either the configuration error is thrown and caught at once,
\* or the adapter is invoked and its fetch is left outstanding
sendMessage ==
    /\ mounted
    /\ ~isLoading
    /\ ~IsBlank(userInput)
    /\ sends < MaxSends
    /\ sends' = sends + 1
    /\ userInput' = ""
    /\ IF ConfigError(aiModel, geminiKey, openaiKey) # Undefined
       THEN LET text == errorMessage(ConfigError(aiModel, geminiKey, openaiKey))
            IN  /\ chatHistory' = chatHistory \o
                       << userMessage(userInput), agentMessage(text, aiModel) >>
                /\ turnSession' = turnSession \o << session, session >>
                /\ lastSpeak' = speakText(text)
                /\ isLoading' = FALSE
                /\ lastOutcome' = Throw("Error",
                       ConfigError(aiModel, geminiKey, openaiKey), FALSE)
                /\ UNCHANGED << requests, pending >>
       ELSE LET isFirstMessage == Len(chatHistory) = 0
                provider == SelectedAdapter(aiModel)
            IN  /\ chatHistory' = Append(chatHistory, userMessage(userInput))
                /\ turnSession' = Append(turnSession, session)
                /\ isLoading' = TRUE
                /\ requests' = Append(requests,
                       [provider |-> provider,
                        model |-> aiModel,
                        chatHistory |-> chatHistory,
                        userInput |-> userInput,
                        isFirstMessage |-> isFirstMessage,
                        turns |-> RequestTurns(provider, chatHistory, userInput,
                                               isFirstMessage),
                        session |-> session])
                /\ pending' = pending \cup {Len(requests) + 1}
                /\ UNCHANGED << lastSpeak, lastOutcome >>
    /\ UNCHANGED << aiModel, geminiKey, openaiKey, mounted,
                    session, call >>

\* the mutation of closureModel that reads the selection current at settling
closureModelCurrent(atSend, current) == current

\* aiModel as the continuation of sendMessage reads it: the value of the
\* render whose handler was invoked, not the current selection
closureModel(atSend, current) == atSend

\* responses examined in Spec: a rejected fetch, an HTTP failure, and 200
\* responses with the success shape, without the leaf text and without the list
AppResponses(provider) ==
    { r \in Responses(provider) :
        \/ r.settled = "rejected"
        \/ r.status = 500 /\ ~r.jsonOk
        \/ /\ r.status = 200
           /\ r.jsonOk
           /\ r.json \in
                { [candidates |-> << [content |-> [parts |-> << [text |-> "Try restarting the router."] >>]] >>],
                  [candidates |-> << [content |-> [parts |-> << [inlineData |-> "image/png"] >>]] >>],
                  [promptFeedback |-> "BLOCKED"],
                  [choices |-> << [message |-> [role |-> "assistant", content |-> "Try restarting the router."]] >>],
                  [choices |-> << [message |-> [role |-> "assistant"]] >>],
                  [error |-> "invalid_request_error"] } }

\* sendMessage from the settling of its await to the end of its finally
\* block, for the i-th adapter invocation
FetchSettles ==
    \E i \in pending : \E r \in AppResponses(requests[i].provider) :
        LET req == requests[i]
            result == AdapterResult(req.provider, r)
            text == IF result.kind = "return"
                    THEN result.value
                    ELSE errorMessage(result.message)
        IN  /\ chatHistory' = Append(chatHistory, agentMessage(text, closureModel(req.model, aiModel)))
            /\ turnSession' = Append(turnSession, req.session)
            /\ lastSpeak' = speakText(text)
            /\ isLoading' = FALSE
            /\ pending' = pending \ {i}
            /\ lastOutcome' = result
            /\ UNCHANGED << userInput, aiModel, geminiKey,
                            openaiKey, mounted, requests, session, sends, call >>

Next ==
    \/ Mount
    \/ ResetClick
    \/ SetUserInput
    \/ SetAiModel
    \/ sendMessage
    \/ FetchSettles

Spec == Init /\ [][Next]_vars

----------------------------------------------------------------------------
(* One adapter call on drawn arguments *)

HistoryTurns ==
    { userMessage(t) : t \in {"hi", "it's slow"} } \cup
    { agentMessage(t, "gemini") : t \in {welcomeMessage, "hello"} }

Histories == UNION { [1..n -> HistoryTurns] : n \in 0..MaxHistory }

AdapterInit ==
    /\ call \in { [pc |-> "start", provider |-> p, chatHistory |-> h,
                   userInput |-> u, isFirstMessage |-> f, turns |-> << >>,
                   fetches |-> 0, given |-> h,
                   response |-> Rejected, result |-> [kind |-> "none"]] :
                  p \in {"gemini", "openai"}, h \in Histories,
                  u \in {"my wifi is down", "it's slow"}, f \in BOOLEAN }
    /\ chatHistory = << >>
    /\ userInput = ""
    /\ isLoading = FALSE
    /\ aiModel = "gemini"
    /\ geminiKey = "live-key"
    /\ openaiKey = "live-key"
    /\ mounted = FALSE
    /\ requests = << >>
    /\ pending = {}
    /\ lastSpeak = Undefined
    /\ session = 0
    /\ sends = 0
    /\ lastOutcome = [kind |-> "none"]
    /\ turnSession = << >>

\* the mutation of callerHistory that pushes the user turn onto the array it
\* was handed
callerHistoryPushed(history, input) == Append(history, userMessage(input))

\* the caller's array after the adapter built its request: map returns a new
\* array and push acts on that one, so the array handed in is as it was
callerHistory(history, input) == history

\* where the adapter stands once fetch has settled: it has returned, or its
\* catch block has rethrown; neither path loops back to fetch
afterSettle(result) == "done"

\* the adapter builds its request body and awaits fetch
AdapterFetch ==
    /\ call.pc = "start"
    /\ call' = [call EXCEPT
                  !.pc = "awaiting",
                  !.fetches = call.fetches + 1,
                  !.chatHistory = callerHistory(call.chatHistory, call.userInput),
                  !.turns = RequestTurns(call.provider, call.chatHistory,
                                         call.userInput, call.isFirstMessage)]
    /\ UNCHANGED appVars

\* fetch settles and the adapter returns or throws
AdapterSettle ==
    /\ call.pc = "awaiting"
    /\ \E r \in Responses(call.provider) :
          call' = [call EXCEPT
                      !.pc = afterSettle(AdapterResult(call.provider, r)),
                      !.response = r,
                      !.result = AdapterResult(call.provider, r)]
    /\ UNCHANGED appVars

AdapterNext == AdapterFetch \/ AdapterSettle

AdapterSpec == AdapterInit /\ [][AdapterNext]_vars

----------------------------------------------------------------------------
(* Properties of one adapter call, checked under AdapterSpec *)

\* the adapter has built its request
Requested == call.pc \in {"awaiting", "done"}

\* the adapter has settled on a fulfilled fetch
SettledOn == call.pc = "done" /\ call.response.settled = "fulfilled"

\* a Gemini turn and an OpenAI message, as the wire formats write them
GeminiTurn(role, text) == [role |-> role, parts |-> << [text |-> text] >>]
OpenAIMessage(role, text) == [role |-> role, content |-> text]

\* C1: getAIResponse called with isFirstMessage = true posts exactly two
\* contents, the persona directive as a "user" turn and the user text as a
\* "user" turn, whatever the history; no history turn appears.
C1_FirstTurnContents ==
    (Requested /\ call.provider = "gemini" /\ call.isFirstMessage) =>
        /\ Len(call.turns) = 2
        /\ call.turns = << GeminiTurn("user", GeminiPersona),
                           GeminiTurn("user", call.userInput) >>

\* C1 witness: a first-turn Gemini request built from a non-empty history
C1_Witness ==
    /\ call.pc = "awaiting"
    /\ call.provider = "gemini"
    /\ call.isFirstMessage
    /\ Len(call.chatHistory) > 0
    /\ Len(call.turns) = 2

\* C2: getAIResponse called with isFirstMessage = false posts len(history)+1
\* contents: history turn i with user -> "user", agent -> "model" and its text
\* as a single-element parts list, in order, then the user text as "user".
C2_LaterTurnContents ==
    (Requested /\ call.provider = "gemini" /\ ~call.isFirstMessage) =>
        LET h == call.chatHistory
            n == Len(h)
        IN  /\ Len(call.turns) = n + 1
            /\ \A i \in 1..n :
                 /\ h[i].role = "user" => call.turns[i] = GeminiTurn("user", h[i].text)
                 /\ h[i].role = "model" => call.turns[i] = GeminiTurn("model", h[i].text)
            /\ call.turns[n + 1] = GeminiTurn("user", call.userInput)

\* C2 witness: a later-turn Gemini request over a history with both speakers
C2_Witness ==
    /\ call.pc = "awaiting"
    /\ call.provider = "gemini"
    /\ ~call.isFirstMessage
    /\ Len(call.chatHistory) >= 2
    /\ call.chatHistory[1].role = "user"
    /\ call.chatHistory[2].role = "model"
    /\ Len(call.turns) = Len(call.chatHistory) + 1

\* C3: getOpenAIResponse always posts len(history)+2 messages: the system
\* persona first, every history turn in order with agent -> "assistant",
\* user -> "user" and content = text, and {user, userText} last.
C3_OpenAIMessages ==
    (Requested /\ call.provider = "openai") =>
        LET h == call.chatHistory
            n == Len(h)
        IN  /\ Len(call.turns) = n + 2
            /\ call.turns[1] = OpenAIMessage("system", OpenAIPersona)
            /\ \A i \in 1..n :
                 /\ h[i].role = "model" => call.turns[i + 1] = OpenAIMessage("assistant", h[i].text)
                 /\ h[i].role = "user" => call.turns[i + 1] = OpenAIMessage("user", h[i].text)
            /\ call.turns[n + 2] = OpenAIMessage("user", call.userInput)

\* C3 witness: an OpenAI request over a history with both speakers
C3_Witness ==
    /\ call.pc = "awaiting"
    /\ call.provider = "openai"
    /\ Len(call.chatHistory) >= 2
    /\ call.chatHistory[1].role = "model"
    /\ call.chatHistory[2].role = "user"
    /\ Len(call.turns) = Len(call.chatHistory) + 2

\* the message of the HTTP-failure error of each adapter for a status
HttpFailureMessage(provider, status) ==
    IF provider = "openai"
    THEN "OpenAI API request failed with status: " \o ToString(status)
    ELSE "API request failed with status: " \o ToString(status)

\* C5: on a non-2xx status either adapter throws the HTTP-failure error whose
\* message carries the observed status, and the body is never parsed.
C5_HttpFailure ==
    (SettledOn /\ ~(call.response.status \in 200..299)) =>
        /\ call.result.kind = "throw"
        /\ call.result.message =
               HttpFailureMessage(call.provider, call.response.status)
        /\ ~call.result.jsonCalled

\* C5 witness: a 404 whose body has the success shape ended in a throw
C5_Witness ==
    /\ SettledOn
    /\ call.response.status = 404
    /\ call.response.jsonOk
    /\ \/ "candidates" \in DOMAIN call.response.json
       \/ "choices" \in DOMAIN call.response.json
    /\ call.result.kind = "throw"

\* the list the success shape starts with
ListField(provider) == IF provider = "openai" THEN "choices" ELSE "candidates"

\* the 2xx JSON body lacks candidates / choices, or has it empty
ListMissing(provider, json) ==
    \/ ListField(provider) \notin DOMAIN json
    \/ Len(json[ListField(provider)]) = 0

\* the message of the malformed-response error of each adapter
MalformedMessage(provider) ==
    IF provider = "openai"
    THEN "Invalid response format from OpenAI service"
    ELSE "Invalid response format from AI service"

\* C6: on a 2xx body without candidates / choices, or with an empty list,
\* either adapter throws the malformed-response error and returns no text.
C6_MalformedList ==
    (SettledOn /\ call.response.status \in 200..299 /\ call.response.jsonOk
        /\ ListMissing(call.provider, call.response.json)) =>
        /\ call.result.kind = "throw"
        /\ call.result.message = MalformedMessage(call.provider)

\* C6 witness: a 200 with an empty list ended in a throw
C6_Witness ==
    /\ SettledOn
    /\ call.response.status = 200
    /\ call.response.jsonOk
    /\ ListField(call.provider) \in DOMAIN call.response.json
    /\ Len(call.response.json[ListField(call.provider)]) = 0
    /\ call.result.kind = "throw"

\* the 2xx JSON body has the outer structure but its leaf text is absent or
\* empty
LeafMissing(provider, json) ==
    IF provider = "openai"
    THEN /\ "choices" \in DOMAIN json
         /\ Len(json.choices) > 0
         /\ "message" \in DOMAIN json.choices[1]
         /\ \/ "content" \notin DOMAIN json.choices[1].message
            \/ json.choices[1].message.content = ""
    ELSE /\ "candidates" \in DOMAIN json
         /\ Len(json.candidates) > 0
         /\ "content" \in DOMAIN json.candidates[1]
         /\ "parts" \in DOMAIN json.candidates[1].content
         /\ Len(json.candidates[1].content.parts) > 0
         /\ \/ "text" \notin DOMAIN json.candidates[1].content.parts[1]
            \/ json.candidates[1].content.parts[1].text = ""

\* C7: on a 2xx body whose outer structure is present but whose leaf text is
\* absent or empty, either adapter throws the malformed-response error
\* rather than returning a value.
C7_MalformedLeaf ==
    (SettledOn /\ call.response.status \in 200..299 /\ call.response.jsonOk
        /\ LeafMissing(call.provider, call.response.json)) =>
        /\ call.result.kind = "throw"
        /\ call.result.message = MalformedMessage(call.provider)

----------------------------------------------------------------------------
(* Properties of the App component, checked under Spec *)

\* request i is the first Gemini call of its session
FirstGeminiOfSession(i) ==
    /\ requests[i].provider = "gemini"
    /\ \A j \in 1..(i - 1) :
          ~(requests[j].provider = "gemini"
            /\ requests[j].session = requests[i].session)

\* C4: in every session the first Gemini call carries the persona directive
\* at the front of its contents, and no later Gemini call of the session does.
C4_PersonaOnFirstCall ==
    \A i \in DOMAIN requests :
        requests[i].provider = "gemini" =>
            (FirstGeminiOfSession(i) <=>
                requests[i].turns[1] = GeminiTurn("user", GeminiPersona))

\* the credential of the selected provider is missing, empty or the
\* placeholder
SelectedKeyUnset ==
    IF aiModel = "openai"
    THEN openaiKey \in {Undefined, "", "your_openai_api_key_here"}
    ELSE geminiKey \in {Undefined, "", "your_gemini_api_key_here"}

\* C8: while the selected provider's credential is missing, empty or the
\* placeholder, no step invokes an adapter: no request is ever issued.
C8_NoCallWithoutCredential ==
    [][SelectedKeyUnset => (requests' = requests /\ pending' \subseteq pending)]_vars

\* C8 witness: with the placeholder as Gemini key a message was sent, the
\* configuration error was put into the conversation and no request exists
C8_Witness ==
    /\ aiModel = "gemini"
    /\ geminiKey = "your_gemini_api_key_here"
    /\ sends > 0
    /\ requests = << >>
    /\ Len(chatHistory) >= 3
    /\ chatHistory[Len(chatHistory)].text =
           "Error: Gemini API key is not set. Please add your API key to the .env file."

\* C9: after a reset the conversation holds only the welcome turn and turns
\* of messages sent after that reset; no reply or error of a call started
\* before the reset is appended to it.
C9_NoStaleTurns ==
    \A i \in DOMAIN chatHistory : turnSession[i] = session

\* C10: isLoading is true whenever a call is outstanding, and at most one
\* call is ever in flight.
C10_OneCallInFlight ==
    /\ pending # {} => isLoading
    /\ Cardinality(pending) <= 1

----------------------------------------------------------------------------
(* Error handling and bookkeeping of the App component, checked under Spec *)

\* this step ends a try block of sendMessage: a fetch settled, or the
\* configuration error was thrown and caught within the handler
TryEnded ==
    \/ pending' # pending /\ pending' \subseteq pending
    \/ sends' # sends /\ requests' = requests

\* number of Agent-role turns of a conversation
AgentTurns(h) == Cardinality({ i \in DOMAIN h : h[i].role = "model" })

\* C11: any error raised during a send (configuration, HTTP failure,
\* malformed response, transport) becomes exactly one Agent-role turn with
\* text "Error: " + message, appended to the conversation, and speakText is
\* invoked with that same text.
C11_ErrorBecomesTurn ==
    [][(TryEnded /\ lastOutcome'.kind = "throw") =>
          LET n == Len(chatHistory')
          IN  /\ AgentTurns(chatHistory') = AgentTurns(chatHistory) + 1
              /\ n > Len(chatHistory)
              /\ chatHistory'[n].role = "model"
              /\ chatHistory'[n].text = "Error: " \o lastOutcome'.message
              /\ lastSpeak' = "Error: " \o lastOutcome'.message]_vars

\* C11 witness: a rejected fetch ended as the error turn and was spoken
C11_Witness ==
    /\ lastOutcome.kind = "throw"
    /\ lastOutcome.message = "Failed to fetch"
    /\ Len(chatHistory) >= 3
    /\ chatHistory[Len(chatHistory)].text = "Error: Failed to fetch"
    /\ lastSpeak = "Error: Failed to fetch"

----------------------------------------------------------------------------
(* Further properties of one adapter call, checked under AdapterSpec *)

\* the response is a failure: fetch rejected, a non-2xx status, or a 2xx JSON
\* body that lacks the list or the leaf text of the success shape
FailureResponse(provider, r) ==
    \/ r.settled = "rejected"
    \/ ~(r.status \in 200..299)
    \/ /\ r.jsonOk
       /\ \/ ListMissing(provider, r.json)
          \/ LeafMissing(provider, r.json)

\* an invocation never issues a second request
AtMostOneFetch == call.fetches <= 1

\* C12: each invocation issues at most one HTTP request: every failure (HTTP
\* failure, malformed response, transport error) ends the call with an error
\* and no second request is sent.
C12_SingleRequest ==
    /\ call.fetches <= 1
    /\ (call.pc = "done" /\ FailureResponse(call.provider, call.response)) =>
          (call.result.kind = "throw" /\ call.fetches = 1)

\* the 2xx JSON body matches the provider's success schema
SuccessShape(provider, json) ==
    IF provider = "openai"
    THEN /\ "choices" \in DOMAIN json
         /\ Len(json.choices) > 0
         /\ "message" \in DOMAIN json.choices[1]
         /\ "content" \in DOMAIN json.choices[1].message
    ELSE /\ "candidates" \in DOMAIN json
         /\ Len(json.candidates) > 0
         /\ "content" \in DOMAIN json.candidates[1]
         /\ "parts" \in DOMAIN json.candidates[1].content
         /\ Len(json.candidates[1].content.parts) > 0
         /\ "text" \in DOMAIN json.candidates[1].content.parts[1]

\* the text embedded in a body of the success schema
EmbeddedText(provider, json) ==
    IF provider = "openai"
    THEN json.choices[1].message.content
    ELSE json.candidates[1].content.parts[1].text

\* C13: on a 2xx body matching the provider's success schema the adapter
\* returns exactly the embedded text, unmodified.
C13_RoundTrip ==
    (SettledOn /\ call.response.status \in 200..299 /\ call.response.jsonOk
        /\ SuccessShape(call.provider, call.response.json)) =>
        /\ call.result.kind = "return"
        /\ call.result.value = EmbeddedText(call.provider, call.response.json)

\* C13 witness: Gemini returned a text with blanks at both ends, a line break
\* and quotes
C13_Witness ==
    /\ SettledOn
    /\ call.provider = "gemini"
    /\ call.response.status = 200
    /\ call.result.kind = "return"
    /\ call.result.value = "  Unplug it.\nWait \"10\" seconds.  "

\* C14: an adapter call leaves the caller's history as it was handed in, on
\* success and on every failure path.
C14_HistoryUnchanged == call.chatHistory = call.given

\* C14 witness: a call over a two-turn history ended in a throw
C14_Witness ==
    /\ call.pc = "done"
    /\ call.result.kind = "throw"
    /\ Len(call.given) = 2
    /\ Len(call.chatHistory) = 2

----------------------------------------------------------------------------
(* Progress of a send, checked under FairSpec *)

\* the build examined for progress: the Gemini key is set and the OpenAI key
\* is the placeholder, so that a send reaches the adapter under one selection
\* and ends in the configuration error under the other
FairInit ==
    /\ Init
    /\ geminiKey = "live-key"
    /\ openaiKey = OpenAIPlaceholder

\* every outstanding fetch settles in the end
FairSpec == FairInit /\ [][Next]_vars /\ WF_vars(FetchSettles)

\* C15: a sendMessage with non-blank input appends its User turn in the step
\* that issues the adapter call; every outstanding call is eventually
\* answered (whenever calls are outstanding, a state with none outstanding
\* follows), and its answer is exactly one appended Agent-role turn after
\* which isLoading is false.
C15_SendIsAnswered ==
    /\ [][sends' # sends =>
            /\ ~IsBlank(userInput)
            /\ Len(chatHistory') > Len(chatHistory)
            /\ chatHistory'[Len(chatHistory) + 1] =
                   [role |-> "user", text |-> userInput]]_vars
    /\ [][TryEnded =>
            /\ AgentTurns(chatHistory') = AgentTurns(chatHistory) + 1
            /\ chatHistory'[Len(chatHistory')].role = "model"
            /\ Cardinality(pending \ pending') <= 1
            /\ ~isLoading']_vars
    /\ (pending # {}) ~> (pending = {})

\* C15 witness: a call was issued and answered, and isLoading is false
C15_Witness ==
    /\ Len(requests) > 0
    /\ pending = {}
    /\ ~isLoading
    /\ Len(chatHistory) >= 3
    /\ chatHistory[Len(chatHistory) - 1].role = "user"
    /\ chatHistory[Len(chatHistory)].role = "model"

\* C16: every Agent-role turn sendMessage appends, reply or error, is
\* labelled with the provider selected for that send, even when the
\* selection changes while the call is in flight.
C16_LabelIsSendProvider ==
    [][/\ \A i \in pending \ pending' :
            chatHistory'[Len(chatHistory')].model = requests[i].provider
       /\ (sends' # sends /\ requests' = requests) =>
            chatHistory'[Len(chatHistory')].model = aiModel]_vars

\* C16 witness: a Gemini call was answered after the selection had moved to
\* OpenAI, and its turn is labelled gemini
C16_Witness ==
    /\ Len(requests) = 1
    /\ requests[1].provider = "gemini"
    /\ pending = {}
    /\ aiModel = "openai"
    /\ Len(chatHistory) >= 3
    /\ chatHistory[Len(chatHistory)].role = "model"
    /\ chatHistory[Len(chatHistory)].model = "gemini"

====
